---- MODULE Spec2Model ----
(***************************************************************************)
(* Astroblasto (twe4ked/astroblasto_multiplayer): the fixed-step           *)
(* simulation of src/lib.rs, its key handlers, and the HashMapCodec of     *)
(* src/hash_map_codec.rs.                                                   *)
(*                                                                         *)
(* Number representation.                                                  *)
(*  - Timers (Actor.life, player_shot_timeout, the tick length) are f32    *)
(*    in the source.  They are kept as integers counting units of 2^-29 s  *)
(*    and every subtraction is rounded as IEEE-754 binary32 rounds it      *)
(*    (24-bit significand, round to nearest, ties to even): F32Round.      *)
(*    1/60 is the f32 0x3C888889 = 8947849 * 2^-29.                        *)
(*  - Positions are integers counting 1/PosScale pixel, velocities         *)
(*    integers counting 1/VelScale pixel per second, angles integers       *)
(*    counting 1/AngScale radian; unit vectors are scaled by TrigScale.    *)
(*    Divisions round to the nearest grid point, as f32 rounds to the      *)
(*    nearest representable value.                                         *)
(***************************************************************************)
EXTENDS Integers, Sequences, FiniteSets, TLC

VARIABLES
    \* MainState
    player, shots, rocks, level, score, input, player_shot_timeout,
    \* ggez: Context.continuing; where the event loop stands: "run" (polling
    \* events, between ticks), "update" (inside the update call that quit),
    \* "done" (event::run has returned); ticks run since the quit
    continuing, pc, catchup,
    \* the user: the keys physically held, the keys pressed so far, ticks so far
    held, pressed, nticks,
    \* history of the tick just run: whether its end-state check found the
    \* player dead, how many rocks its respawn added; and for every shot of
    \* the list the number of ticks it has been through
    died, spawned, shot_ticks,
    \* HashMapCodec: the map to send, the buffer, the decoded map, the step
    cmap, cbuf, cout, cpc,
    \* the transport thread of main.rs: the outbound channel (chn_tx, chn_rx),
    \* the write buffer of the UdpFramed sink, the datagrams handed to the
    \* socket and those received from it, the inbound channel (tx, rx), the
    \* state of the serve future; history: all maps pushed, all maps drained;
    \* the number of chn_tx handles not yet dropped
    chn, wr, sock_out, sock_in, inq, serve, pushed, drained, senders,
    \* one function applied to drawn arguments: which, the arguments, the result
    fpc, farg, fres

gameVars == <<player, shots, rocks, level, score, input, player_shot_timeout,
              continuing, pc, catchup, held, pressed, nticks, died, spawned, shot_ticks>>
codecVars == <<cmap, cbuf, cout, cpc>>
netVars == <<chn, wr, sock_out, sock_in, inq, serve, pushed, drained, senders>>
funVars == <<fpc, farg, fres>>
vars == <<player, shots, rocks, level, score, input, player_shot_timeout,
          continuing, pc, catchup, held, pressed, nticks, died, spawned, shot_ticks,
          cmap, cbuf, cout, cpc,
          chn, wr, sock_out, sock_in, inq, serve, pushed, drained,
          fpc, farg, fres>>

----------------------------------------------------------------------------
(* Bounds of the exploration. *)

\* ticks explored per run
MaxTicks == 220
\* the user presses and releases keys only every KeyPeriod ticks
KeyPeriod == 60
\* ticks one update call still runs after ggez::quit
MaxCatchUp == 1
\* rocks of one create_rocks call that draw the drifting rock
MaxLow == 1
\* level respawns explored
MaxLevel == 4

----------------------------------------------------------------------------
(* Grids of the fixed-point representation. *)

PosScale == 360
VelScale == 6
AngScale == 20
TrigScale == 1000
\* one second in timer units (2^29)
TimeOne == 536870912

Abs(a) == IF a < 0 THEN -a ELSE a

\* a / b rounded to the nearest integer (b > 0), halves away from zero
DivRound(a, b) ==
    IF a >= 0 THEN (2 * a + b) \div (2 * b) ELSE -((2 * (-a) + b) \div (2 * b))

RECURSIVE SqrtSearch(_, _, _)
SqrtSearch(n, lo, hi) ==
    IF lo >= hi THEN lo
    ELSE LET mid == (lo + hi + 1) \div 2
         IN IF mid * mid <= n THEN SqrtSearch(n, mid, hi)
            ELSE SqrtSearch(n, lo, mid - 1)

\* f32::sqrt on the grid: the integer nearest to the square root of n
Sqrt(n) ==
    LET r == SqrtSearch(n, 0, 46340)
    IN IF n - r * r > r THEN r + 1 ELSE r

\* the binary32 spacing of a timer value of magnitude a (units of 2^-29 s)
F32Ulp(a) ==
    IF a < 16777216 THEN 1
    ELSE IF a < 33554432 THEN 2
    ELSE IF a < 67108864 THEN 4
    ELSE IF a < 134217728 THEN 8
    ELSE IF a < 268435456 THEN 16
    ELSE IF a < 536870912 THEN 32
    ELSE IF a < 1073741824 THEN 64
    ELSE 128

\* round a to binary32: nearest multiple of its spacing, ties to even
F32Round(x) ==
    LET a == Abs(x)
        u == F32Ulp(a)
        q == a \div u
        r == a % u
        n == IF 2 * r > u \/ (2 * r = u /\ q % 2 = 1) THEN q + 1 ELSE q
    IN IF x < 0 THEN -(n * u) ELSE n * u

F32Sub(a, b) == F32Round(a - b)

----------------------------------------------------------------------------
(* Constants of src/lib.rs, on the grids above. *)

PLAYER_LIFE == TimeOne
SHOT_LIFE == 2 * TimeOne
ROCK_LIFE == TimeOne

PLAYER_BBOX == 12 * PosScale
ROCK_BBOX == 12 * PosScale
SHOT_BBOX == 6 * PosScale

MAX_ROCK_VEL == 50 * VelScale
SHOT_SPEED == 200 * VelScale
\* 0.1 rad per tick
SHOT_ANG_VEL == AngScale \div 10
PLAYER_THRUST == 100 * VelScale
PLAYER_TURN_RATE == 3 * AngScale
PLAYER_SHOT_TIME == TimeOne \div 2
MAX_PHYSICS_VEL == 250 * VelScale

DESIRED_FPS == 60
\* seconds = 1.0 / (DESIRED_FPS as f32), the f32 0x3C888889
Seconds == 8947849

\* window_mode.dimensions(800.0 * hidpi_factor, 600.0 * hidpi_factor), factor 1
SCREEN_WIDTH == 800
SCREEN_HEIGHT == 600
screen_width == SCREEN_WIDTH * PosScale
screen_height == SCREEN_HEIGHT * PosScale

----------------------------------------------------------------------------
(* Vectors are pairs <<x, y>>. *)

VAdd(a, b) == <<a[1] + b[1], a[2] + b[2]>>
VSub(a, b) == <<a[1] - b[1], a[2] - b[2]>>
norm_squared(v) == v[1] * v[1] + v[2] * v[2]

\* v.norm() < r, without forming squares wider than 32 bits
NormLess(v, r) ==
    /\ Abs(v[1]) < r
    /\ Abs(v[2]) < r
    /\ norm_squared(v) < r * r

\* 1000 * sin(k / 20) and 1000 * cos(k / 20) for k = 0 .. 126 (one turn is 125.66)
SinTable ==
   << 0, 50, 100, 149, 199, 247, 296, 343, 389, 435, 479, 523, 565, 605,
      644, 682, 717, 751, 783, 813, 841, 867, 891, 913, 932, 949, 964, 976,
      985, 993, 997, 1000, 1000, 997, 992, 984, 974, 961, 946, 929, 909, 887,
      863, 837, 808, 778, 746, 711, 675, 638, 598, 558, 516, 472, 427, 382,
      335, 287, 239, 190, 141, 91, 42, -8, -58, -108, -158, -207, -256, -304,
      -351, -397, -443, -487, -530, -572, -612, -651, -688, -723, -757, -789, -818, -846,
      -872, -895, -916, -935, -952, -966, -978, -987, -994, -998, -1000, -999, -996, -991,
      -982, -972, -959, -944, -926, -906, -883, -859, -832, -804, -773, -740, -706, -669,
      -631, -592, -551, -508, -465, -420, -374, -327, -279, -231, -182, -133, -83, -33,
      17 >>

CosTable ==
   << 1000, 999, 995, 989, 980, 969, 955, 939, 921, 900, 878, 853, 825, 796,
      765, 732, 697, 660, 622, 582, 540, 498, 454, 408, 362, 315, 267, 219,
      170, 121, 71, 21, -29, -79, -129, -178, -227, -276, -323, -370, -416, -461,
      -505, -547, -589, -628, -666, -703, -737, -770, -801, -830, -857, -882, -904, -924,
      -942, -958, -971, -982, -990, -996, -999, -1000, -998, -994, -987, -978, -967, -953,
      -936, -918, -897, -874, -848, -821, -791, -759, -726, -691, -654, -615, -575, -533,
      -490, -446, -401, -355, -307, -259, -211, -162, -112, -62, -12, 38, 87, 137,
      187, 235, 284, 331, 378, 424, 469, 512, 554, 595, 635, 673, 709, 743,
      776, 806, 835, 861, 886, 908, 927, 945, 960, 973, 983, 991, 997, 999,
      1000 >>

\* the unit vector (sin, cos) of an angle of |k| <= 126 angle units, times TrigScale
vec_from_angle(k) ==
    IF k >= 0 THEN <<SinTable[k + 1], CosTable[k + 1]>>
    ELSE <<-SinTable[1 - k], CosTable[1 - k]>>

\* unit vector u (times TrigScale) scaled by m
Scaled(u, m) == <<DivRound(u[1] * m, TrigScale), DivRound(u[2] * m, TrigScale)>>

----------------------------------------------------------------------------
(* Actor constructors. *)

create_player ==
    [tag |-> "Player", pos |-> <<0, 0>>, facing |-> 0, velocity |-> <<0, 0>>,
     ang_vel |-> 0, bbox_size |-> PLAYER_BBOX, life |-> PLAYER_LIFE]

create_rock ==
    [tag |-> "Rock", pos |-> <<0, 0>>, facing |-> 0, velocity |-> <<0, 0>>,
     ang_vel |-> 0, bbox_size |-> ROCK_BBOX, life |-> ROCK_LIFE]

create_shot ==
    [tag |-> "Shot", pos |-> <<0, 0>>, facing |-> 0, velocity |-> <<0, 0>>,
     ang_vel |-> SHOT_ANG_VEL, bbox_size |-> SHOT_BBOX, life |-> SHOT_LIFE]

(* The outcomes of rand::random the model draws from: r_angle (angle units),  *)
(* r_distance - min_radius (pixels), and the angle and magnitude (pixels per  *)
(* second) of random_vec.  Far is a still rock 240 pixels straight ahead of a *)
(* player facing 0; Low a rock 100 pixels behind it that drifts towards it.   *)
Far == [r_angle |-> 0, r_dist |-> 140, v_angle |-> 0, v_mag |-> 0]
Low == [r_angle |-> 63, r_dist |-> 0, v_angle |-> 0, v_mag |-> 48]

\* the draws of one create_rocks call: up to MaxLow rocks draw Low, the rest Far
RockDraws(num) ==
    { [i \in 1..num |-> IF i <= k THEN Low ELSE Far] : k \in 0..MaxLow }

\* Makes a random Vector2 with the given max magnitude: here with the drawn one.
random_vec(v_angle, v_mag) == Scaled(vec_from_angle(v_angle), v_mag * VelScale)

\* new_rock placing the rock at r_distance - min_radius from the exclusion point
new_rock_NoMin(d, exclusion, min_radius) ==
    LET r_distance == d.r_dist * PosScale
    IN [create_rock EXCEPT
          !.pos = VAdd(exclusion, Scaled(vec_from_angle(d.r_angle), r_distance)),
          !.velocity = random_vec(d.v_angle, d.v_mag)]

\* one rock of create_rocks, from one draw
new_rock(d, exclusion, min_radius) ==
    LET r_distance == (d.r_dist + min_radius) * PosScale
    IN [create_rock EXCEPT
          !.pos = VAdd(exclusion, Scaled(vec_from_angle(d.r_angle), r_distance)),
          !.velocity = random_vec(d.v_angle, d.v_mag)]

\* the results create_rocks(num, exclusion, min_radius, max_radius) can return
\* the rocks (0..num).map(new_rock).collect() gives for the draws in `draws`
create_rocks_of(draws, num, exclusion, min_radius, max_radius) ==
    { [i \in 1..num |-> new_rock(ds[i], exclusion, min_radius)] :
         ds \in {d \in draws :
                   \A i \in 1..num : d[i].r_dist < max_radius - min_radius} }

create_rocks(num, exclusion, min_radius, max_radius) ==
    create_rocks_of(RockDraws(num), num, exclusion, min_radius, max_radius)

----------------------------------------------------------------------------
(* Physics. *)

player_thrust(actor) ==
    LET direction_vector == vec_from_angle(actor.facing)
        \* direction * PLAYER_THRUST * dt, dt = 1 / DESIRED_FPS
        thrust_dv == <<DivRound(direction_vector[1] * PLAYER_THRUST, TrigScale * DESIRED_FPS),
                       DivRound(direction_vector[2] * PLAYER_THRUST, TrigScale * DESIRED_FPS)>>
    IN [actor EXCEPT !.velocity = VAdd(actor.velocity, thrust_dv)]

\* actor.facing += dt * PLAYER_TURN_RATE * input.xaxis
Turned(actor, inp) ==
    [actor EXCEPT !.facing = actor.facing + (PLAYER_TURN_RATE * inp.xaxis) \div DESIRED_FPS]

player_handle_input(actor, inp) ==
    IF inp.yaxis > 0 THEN player_thrust(Turned(actor, inp)) ELSE Turned(actor, inp)

\* update_actor_position without its clamp
ClampVelocity_Off(v) == v

\* Clamp the velocity to the max: velocity / norm_sq.sqrt() * MAX_PHYSICS_VEL
ClampVelocity(v) ==
    LET norm_sq == norm_squared(v)
    IN IF norm_sq > MAX_PHYSICS_VEL * MAX_PHYSICS_VEL
       THEN <<DivRound(v[1] * MAX_PHYSICS_VEL, Sqrt(norm_sq)),
              DivRound(v[2] * MAX_PHYSICS_VEL, Sqrt(norm_sq))>>
       ELSE v

update_actor_position(actor) ==
    LET vel == ClampVelocity(actor.velocity)
        \* velocity * dt, from velocity units to position units
        dv == <<DivRound(vel[1] * PosScale, VelScale * DESIRED_FPS),
                DivRound(vel[2] * PosScale, VelScale * DESIRED_FPS)>>
    IN [actor EXCEPT !.velocity = vel,
                     !.pos = VAdd(actor.pos, dv),
                     !.facing = actor.facing + actor.ang_vel]

\* WrapCoord without the branch for the upper edge
WrapCoord_LowerOnly(c, size) ==
    LET bound == size \div 2
    IN IF c < -bound THEN c + size ELSE c

\* WrapCoord stepping by the bound, not by the size
WrapCoord_HalfStep(c, size) ==
    LET bound == size \div 2
    IN IF c > bound THEN c - bound
       ELSE IF c < -bound THEN c + bound
       ELSE c

WrapCoord(c, size) ==
    LET bound == size \div 2
    IN IF c > bound THEN c - size
       ELSE IF c < -bound THEN c + size
       ELSE c

wrap_actor_position(actor, sx, sy) ==
    [actor EXCEPT !.pos = <<WrapCoord(actor.pos[1], sx), WrapCoord(actor.pos[2], sy)>>]

handle_timed_life(actor) == [actor EXCEPT !.life = F32Sub(actor.life, Seconds)]

----------------------------------------------------------------------------
(* MainState. *)

InputState_default == [xaxis |-> 0, yaxis |-> 0, fire |-> FALSE]

\* the shot fire_player_shot pushes
new_shot(p) ==
    LET direction == vec_from_angle(p.facing)
    IN [create_shot EXCEPT
          !.pos = p.pos,
          !.facing = p.facing,
          !.velocity = Scaled(direction, SHOT_SPEED)]

\* fire_player_shot that leaves the cooldown at zero
fire_player_shot_NoCooldown(p, sh) ==
    [timeout |-> 0, shots |-> Append(sh, new_shot(p))]

\* fire_player_shot: the cooldown and the shot list it leaves
fire_player_shot(p, sh) ==
    [timeout |-> PLAYER_SHOT_TIME, shots |-> Append(sh, new_shot(p))]

\* a retain predicate that keeps every actor
Alive_Always(a) == TRUE

Alive(a) == a.life > 0

NotNegative(a) == a.life >= 0

\* clear_dead_stuff retaining life >= 0.0
clear_dead_stuff_KeepZero(list) == SelectSeq(list, NotNegative)

\* clear_dead_stuff: Vec::retain(|a| a.life > 0.0)
clear_dead_stuff(list) == SelectSeq(list, Alive)

\* PlayerHit with <= in place of <
PlayerHit_Touching(p, r) ==
    LET d == VSub(r.pos, p.pos)
        reach == p.bbox_size + r.bbox_size
    IN Abs(d[1]) <= reach /\ Abs(d[2]) <= reach /\ norm_squared(d) <= reach * reach

PlayerHit(p, r) == NormLess(VSub(r.pos, p.pos), p.bbox_size + r.bbox_size)
ShotHit(s, r) == NormLess(VSub(s.pos, r.pos), s.bbox_size + r.bbox_size)

\* handle_collisions whose player test skips the rocks a shot destroys
handle_collisions_ShotsFirst(p, sh, rk, sc) ==
    LET hits == {pr \in (1..Len(rk)) \X (1..Len(sh)) : ShotHit(sh[pr[2]], rk[pr[1]])}
    IN [player |-> IF \E i \in 1..Len(rk) :
                         /\ PlayerHit(p, rk[i])
                         /\ \A j \in 1..Len(sh) : <<i, j>> \notin hits
                   THEN [p EXCEPT !.life = 0] ELSE p,
        shots |-> [j \in 1..Len(sh) |->
                     IF \E i \in 1..Len(rk) : <<i, j>> \in hits
                     THEN [sh[j] EXCEPT !.life = 0] ELSE sh[j]],
        rocks |-> [i \in 1..Len(rk) |->
                     IF \E j \in 1..Len(sh) : <<i, j>> \in hits
                     THEN [rk[i] EXCEPT !.life = 0] ELSE rk[i]],
        score |-> sc + Cardinality(hits)]

\* handle_collisions with a test of shot.life: a shot hits only its first rock
handle_collisions_SkipDead(p, sh, rk, sc) ==
    LET all == {pr \in (1..Len(rk)) \X (1..Len(sh)) : ShotHit(sh[pr[2]], rk[pr[1]])}
        hits == {pr \in all : \A i \in 1..(pr[1] - 1) : <<i, pr[2]>> \notin all}
    IN [player |-> IF \E i \in 1..Len(rk) : PlayerHit(p, rk[i])
                   THEN [p EXCEPT !.life = 0] ELSE p,
        shots |-> [j \in 1..Len(sh) |->
                     IF \E i \in 1..Len(rk) : <<i, j>> \in hits
                     THEN [sh[j] EXCEPT !.life = 0] ELSE sh[j]],
        rocks |-> [i \in 1..Len(rk) |->
                     IF \E j \in 1..Len(sh) : <<i, j>> \in hits
                     THEN [rk[i] EXCEPT !.life = 0] ELSE rk[i]],
        score |-> sc + Cardinality(hits)]

\* handle_collisions with the score counted down
handle_collisions_ScoreDown(p, sh, rk, sc) ==
    LET hits == {pr \in (1..Len(rk)) \X (1..Len(sh)) : ShotHit(sh[pr[2]], rk[pr[1]])}
    IN [player |-> IF \E i \in 1..Len(rk) : PlayerHit(p, rk[i])
                   THEN [p EXCEPT !.life = 0] ELSE p,
        shots |-> [j \in 1..Len(sh) |->
                     IF \E i \in 1..Len(rk) : <<i, j>> \in hits
                     THEN [sh[j] EXCEPT !.life = 0] ELSE sh[j]],
        rocks |-> [i \in 1..Len(rk) |->
                     IF \E j \in 1..Len(sh) : <<i, j>> \in hits
                     THEN [rk[i] EXCEPT !.life = 0] ELSE rk[i]],
        score |-> sc - Cardinality(hits)]

(* handle_collisions.  Neither test reads a life, so the nested loops give:   *)
(* the player dies if some rock touches it; a rock (a shot) dies if some shot *)
(* (rock) touches it; the score grows by one for every touching pair.         *)
handle_collisions(p, sh, rk, sc) ==
    LET hits == {pr \in (1..Len(rk)) \X (1..Len(sh)) : ShotHit(sh[pr[2]], rk[pr[1]])}
    IN [player |-> IF \E i \in 1..Len(rk) : PlayerHit(p, rk[i])
                   THEN [p EXCEPT !.life = 0] ELSE p,
        shots |-> [j \in 1..Len(sh) |->
                     IF \E i \in 1..Len(rk) : <<i, j>> \in hits
                     THEN [sh[j] EXCEPT !.life = 0] ELSE sh[j]],
        rocks |-> [i \in 1..Len(rk) |->
                     IF \E j \in 1..Len(sh) : <<i, j>> \in hits
                     THEN [rk[i] EXCEPT !.life = 0] ELSE rk[i]],
        score |-> sc + Cardinality(hits)]

\* check_for_level_respawn counting the rocks from the level before its increment
check_for_level_respawn_OldLevel(rk, lv, p) ==
    IF rk = <<>>
    THEN { [level |-> lv + 1, rocks |-> rk \o r, added |-> Len(r)] :
               r \in create_rocks(lv + 5, p.pos, 100, 250) }
    ELSE { [level |-> lv, rocks |-> rk, added |-> 0] }

\* check_for_level_respawn that leaves an empty rock list empty
check_for_level_respawn_Never(rk, lv, p) ==
    { [level |-> lv, rocks |-> rk, added |-> 0] }

\* check_for_level_respawn: the levels and rock lists it can leave
check_for_level_respawn(rk, lv, p) ==
    IF rk = <<>>
    THEN { [level |-> lv + 1, rocks |-> rk \o r, added |-> Len(r)] :
               r \in create_rocks(lv + 1 + 5, p.pos, 100, 250) }
    ELSE { [level |-> lv, rocks |-> rk, added |-> 0] }

MoveActor(a) == wrap_actor_position(update_actor_position(a), screen_width, screen_height)

\* MainState::new
Init_game ==
    /\ player = create_player
    /\ shots = <<>>
    /\ rocks \in create_rocks(5, create_player.pos, 100, 250)
    /\ level = 0
    /\ score = 0
    /\ input = InputState_default
    /\ player_shot_timeout = 0
    /\ continuing = TRUE
    /\ pc = "run"
    /\ catchup = 0
    /\ held = {}
    /\ pressed = {}
    /\ nticks = 0
    /\ died = FALSE
    /\ shot_ticks = <<>>
    /\ spawned = 0

\* the fire test without the cooldown
ShouldFire_NoCooldown(inp, timeout) == inp.fire

\* the fire test of update: input.fire && player_shot_timeout < 0.0
ShouldFire(inp, timeout) == inp.fire /\ timeout < 0

AlivePair(q) == Alive(q.actor)

(* The values one iteration of the while loop of EventHandler::update        *)
(* computes from the current state, up to and including clear_dead_stuff.     *)
Tick ==
    LET p1 == player_handle_input(player, input)
        timeout1 == F32Sub(player_shot_timeout, Seconds)
        fires == ShouldFire(input, timeout1)
        shot == IF fires THEN fire_player_shot(p1, shots)
                ELSE [timeout |-> timeout1, shots |-> shots]
        ticks1 == IF fires THEN Append(shot_ticks, 0) ELSE shot_ticks
        p2 == MoveActor(p1)
        shots2 == [j \in 1..Len(shot.shots) |->
                     handle_timed_life(MoveActor(shot.shots[j]))]
        rocks2 == [i \in 1..Len(rocks) |-> MoveActor(rocks[i])]
        hit == handle_collisions(p2, shots2, rocks2, score)
        pairs == SelectSeq([j \in 1..Len(shots2) |->
                              [actor |-> hit.shots[j], ticks |-> ticks1[j] + 1]],
                           AlivePair)
    IN [timeout1 |-> timeout1,
        fires |-> fires,
        timeout |-> shot.timeout,
        player |-> hit.player,
        score |-> hit.score,
        shots |-> clear_dead_stuff(hit.shots),
        rocks |-> clear_dead_stuff(hit.rocks),
        shot_ticks |-> [k \in 1..Len(pairs) |-> pairs[k].ticks]]

\* one iteration of the while loop of EventHandler::update
update ==
    /\ pc \in {"run", "update"}
    /\ nticks < MaxTicks
    \* the angles SinTable and CosTable cover
    /\ Abs(Turned(player, input).facing) < Len(SinTable)
    /\ LET t == Tick
       IN /\ \E re \in check_for_level_respawn(t.rocks, level, t.player) :
               /\ re.level <= MaxLevel
               /\ level' = re.level
               /\ rocks' = re.rocks
               /\ spawned' = re.added
          /\ player' = t.player
          /\ shots' = t.shots
          /\ shot_ticks' = t.shot_ticks
          /\ score' = t.score
          /\ player_shot_timeout' = t.timeout
          \* Finally we check for our end state: ggez::quit(ctx)
          /\ died' = (t.player.life <= 0)
          /\ continuing' = IF t.player.life <= 0 THEN FALSE ELSE continuing
          /\ pc' = IF t.player.life <= 0 \/ pc = "update" THEN "update" ELSE "run"
    /\ ~continuing => catchup < MaxCatchUp
    /\ catchup' = IF continuing THEN 0 ELSE catchup + 1
    /\ nticks' = nticks + 1
    /\ UNCHANGED <<input, held, pressed>>
    /\ UNCHANGED <<codecVars, netVars, funVars>>

KeyCodes == {"Up", "Left", "Right", "Space", "P", "Escape", "Other"}

key_down_event(keycode) ==
    /\ pc = "run"
    /\ held' = held \cup {keycode}
    /\ pressed' = pressed \cup {keycode}
    /\ input' = CASE keycode = "Up" -> [input EXCEPT !.yaxis = 1]
                  [] keycode = "Left" -> [input EXCEPT !.xaxis = -1]
                  [] keycode = "Right" -> [input EXCEPT !.xaxis = 1]
                  [] keycode = "Space" -> [input EXCEPT !.fire = TRUE]
                  [] OTHER -> input
    /\ continuing' = IF keycode = "Escape" THEN FALSE ELSE continuing
    /\ UNCHANGED <<player, shots, rocks, level, score, player_shot_timeout, pc,
                   catchup, nticks, died, spawned, shot_ticks>>
    /\ UNCHANGED <<codecVars, netVars, funVars>>

key_up_event(keycode) ==
    /\ pc = "run"
    /\ keycode \in held
    /\ held' = held \ {keycode}
    /\ UNCHANGED pressed
    /\ input' = CASE keycode = "Up" -> [input EXCEPT !.yaxis = 0]
                  [] keycode \in {"Left", "Right"} -> [input EXCEPT !.xaxis = 0]
                  [] keycode = "Space" -> [input EXCEPT !.fire = FALSE]
                  [] OTHER -> input
    /\ UNCHANGED <<player, shots, rocks, level, score, player_shot_timeout,
                   continuing, pc, catchup, nticks, died, spawned, shot_ticks>>
    /\ UNCHANGED <<codecVars, netVars, funVars>>

\* event::run: the loop `while ctx.continuing` ends after the frame that quit
event_run_return ==
    /\ pc \in {"run", "update"}
    /\ ~continuing
    /\ pc' = "done"
    /\ UNCHANGED <<player, shots, rocks, level, score, input, player_shot_timeout,
                   continuing, catchup, held, pressed, nticks, died, spawned, shot_ticks>>
    /\ UNCHANGED <<codecVars, netVars, funVars>>

\* the transport with nothing sent or received yet
Init_net_idle ==
    /\ chn = <<>>
    /\ wr = <<>>
    /\ sock_out = <<>>
    /\ sock_in = <<>>
    /\ inq = <<>>
    /\ serve = [state |-> "running", cause |-> "none"]
    /\ pushed = <<>>
    /\ drained = <<>>
    /\ senders = 1

\* no function applied on its own
Init_fun_idle ==
    /\ fpc = "idle"
    /\ farg = <<>>
    /\ fres = <<>>

----------------------------------------------------------------------------
(* HashMapCodec (src/hash_map_codec.rs).  A String is the sequence of its    *)
(* Unicode scalar values, a byte a number 0..255, an f64 its 64 bits as four *)
(* 16-bit words (most significant first), a HashMap a function from keys to  *)
(* values.  The bytevec crate, which lays the map out in bytes, is not part  *)
(* of the sources: its layout is the wire format section 4.12 of the         *)
(* specification gives.                                                       *)

EmptyMap == [k \in {} |-> <<>>]

\* String::as_bytes: the UTF-8 bytes of one scalar value, of a string
Utf8Char(c) ==
    IF c < 128 THEN <<c>>
    ELSE IF c < 2048 THEN <<192 + (c \div 64), 128 + (c % 64)>>
    ELSE <<224 + (c \div 4096), 128 + ((c \div 64) % 64), 128 + (c % 64)>>

RECURSIVE as_bytes(_)
as_bytes(str) ==
    IF str = <<>> THEN <<>> ELSE Utf8Char(Head(str)) \o as_bytes(Tail(str))

IsCont(b) == b >= 128 /\ b < 192

\* String::from_utf8 on strings of up to three-byte sequences: [ok, str]
RECURSIVE from_utf8(_)
from_utf8(bytes) ==
    IF bytes = <<>> THEN [ok |-> TRUE, str |-> <<>>]
    ELSE LET b == bytes[1]
             n == IF b < 128 THEN 1
                  ELSE IF b >= 194 /\ b < 224 THEN 2
                  ELSE IF b >= 224 /\ b < 240 THEN 3
                  ELSE 0
         IN IF n = 0 \/ Len(bytes) < n
               \/ (n >= 2 /\ ~IsCont(bytes[2]))
               \/ (n = 3 /\ ~IsCont(bytes[3]))
               \/ (n = 3 /\ b = 224 /\ bytes[2] < 160)
               \/ (n = 3 /\ b = 237 /\ bytes[2] >= 160)
            THEN [ok |-> FALSE, str |-> <<>>]
            ELSE LET c == IF n = 1 THEN b
                          ELSE IF n = 2 THEN (b - 192) * 64 + (bytes[2] - 128)
                          ELSE (b - 224) * 4096 + (bytes[2] - 128) * 64 + (bytes[3] - 128)
                     rest == from_utf8(SubSeq(bytes, n + 1, Len(bytes)))
                 IN [ok |-> rest.ok, str |-> IF rest.ok THEN <<c>> \o rest.str ELSE <<>>]

\* a 32-bit unsigned big-endian number
U32BE(n) ==
    <<n \div 16777216, (n \div 65536) % 256, (n \div 256) % 256, n % 256>>

\* the number at bytes[at .. at + 3]; 2^31 - 1 stands for all that are larger
U32At(bytes, at) ==
    IF bytes[at] >= 128 THEN 2147483647
    ELSE bytes[at] * 16777216 + bytes[at + 1] * 65536 + bytes[at + 2] * 256 + bytes[at + 3]

\* the 8 bytes of an IEEE-754 double, big-endian
F64BE(w) ==
    <<w[1] \div 256, w[1] % 256, w[2] \div 256, w[2] % 256,
      w[3] \div 256, w[3] % 256, w[4] \div 256, w[4] % 256>>

F64At(bytes, at) ==
    [i \in 1..4 |-> bytes[at + 2 * i - 2] * 256 + bytes[at + 2 * i - 1]]

\* the entries of item in the order the HashMap iterates them
RECURSIVE EncodeEntries(_, _)
EncodeEntries(item, order) ==
    IF order = <<>> THEN <<>>
    ELSE LET key == as_bytes(Head(order))
         IN U32BE(Len(key)) \o key \o F64BE(item[Head(order)])
               \o EncodeEntries(item, Tail(order))

\* <HashMap<String, f64> as ByteEncodable>::encode::<u32>
bytevec_encode(item, order) == U32BE(Len(order)) \o EncodeEntries(item, order)

DecodeFailed == [ok |-> FALSE, map |-> EmptyMap]

RECURSIVE DecodeEntries(_, _, _, _)
DecodeEntries(bytes, at, n, acc) ==
    IF n = 0
    THEN IF at = Len(bytes) + 1 THEN [ok |-> TRUE, map |-> acc] ELSE DecodeFailed
    ELSE IF Len(bytes) - at < 3 THEN DecodeFailed
    ELSE LET l == U32At(bytes, at)
         IN IF l > Len(bytes) - at - 11 THEN DecodeFailed
            ELSE LET key == from_utf8(SubSeq(bytes, at + 4, at + 3 + l))
                 IN IF ~key.ok THEN DecodeFailed
                    ELSE DecodeEntries(bytes, at + 12 + l, n - 1,
                                       (key.str :> F64At(bytes, at + 4 + l)) @@ acc)

\* <HashMap<String, f64> as ByteDecodable>::decode::<u32>
bytevec_decode(bytes) ==
    IF Len(bytes) < 4 THEN DecodeFailed
    ELSE DecodeEntries(bytes, 5, U32At(bytes, 1), EmptyMap)

\* Encoder::encode that reserves the room and never puts the bytes
HashMapCodec_encode_NoPut(item, order, buf) == buf

\* Encoder::encode: buf.reserve(bytes.len()); buf.put(bytes)
HashMapCodec_encode(item, order, buf) == buf \o bytevec_encode(item, order)

\* Decoder::decode: the whole buffer is decoded, and left as it is
HashMapCodec_decode(buf) == bytevec_decode(buf)

\* bounds of the maps explored
MaxKeyLen == 1
MaxEntries == 2

\* 'x', e acute (two bytes), the euro sign (three bytes)
Chars == {120, 233, 8364}
Keys == UNION {[1..n -> Chars] : n \in 0..MaxKeyLen}
\* 0.0, 1.0, -2.5, 0.1
Doubles == {<<0, 0, 0, 0>>, <<16368, 0, 0, 0>>, <<49156, 0, 0, 0>>,
            <<16313, 39321, 39321, 39322>>}
Maps == UNION {[ks -> Doubles] : ks \in {k \in SUBSET Keys : Cardinality(k) <= MaxEntries}}

\* the orders a HashMap can iterate its keys in
Orders(item) ==
    {o \in [1..Cardinality(DOMAIN item) -> DOMAIN item] :
        \A i, j \in DOMAIN o : i # j => o[i] # o[j]}

\* a codec and the map to send, beside a game just constructed
InitCodec ==
    /\ Init_game
    /\ Init_net_idle
    /\ Init_fun_idle
    /\ cmap \in Maps
    /\ cbuf = <<>>
    /\ cout = DecodeFailed
    /\ cpc = "idle"

\* codec.encode(item, &mut buf)
encode ==
    /\ cpc = "idle"
    /\ \E order \in Orders(cmap) : cbuf' = HashMapCodec_encode(cmap, order, cbuf)
    /\ cpc' = "encoded"
    /\ UNCHANGED <<cmap, cout>>
    /\ UNCHANGED <<gameVars, netVars, funVars>>

\* codec.decode(&mut buf): .expect("unable to decode") panics on a failure
decode ==
    /\ cpc = "encoded"
    /\ cout' = HashMapCodec_decode(cbuf)
    /\ cpc' = IF cout'.ok THEN "decoded" ELSE "panicked"
    /\ UNCHANGED <<cmap, cbuf>>
    /\ UNCHANGED <<gameVars, netVars, funVars>>

NextCodec == encode \/ decode

SpecCodec == InitCodec /\ [][NextCodec]_vars

\* the game runs with the codec unused
Init_codec_idle ==
    /\ cmap = EmptyMap
    /\ cbuf = <<>>
    /\ cout = DecodeFailed
    /\ cpc = "idle"

----------------------------------------------------------------------------
(* The transport thread of main.rs: serve = send.select(recv), run by        *)
(* tokio::run on its own thread.  send forwards the outbound channel into    *)
(* the UdpFramed sink; recv handles every frame of the UdpFramed stream.     *)
(* UdpFramed keeps one datagram in its write buffer between start_send and   *)
(* poll_complete, and decodes every datagram received from an empty read     *)
(* buffer.                                                                    *)

\* bounds: maps the simulation pushes, datagrams the socket receives
MaxMsgs == 2
MaxDatagrams == 2

\* the maps the simulation sends: {"x": 1.0} and {"x": -2.5}
MsgMaps == {(<<120>> :> <<16368, 0, 0, 0>>), (<<120>> :> <<49156, 0, 0, 0>>)}

\* the peers datagrams come from, as the text of their address
Peers == {<<49>>, <<50>>}

\* a datagram no map encodes to
Malformed == <<255>>

\* what the socket can receive: the encodings of the maps, and Malformed
Datagrams ==
    UNION {{bytevec_encode(m, o) : o \in Orders(m)} : m \in MsgMaps} \cup {Malformed}

\* select that goes on polling the half that is left
Stopped_OtherHalfRuns(cause) == [state |-> "running", cause |-> cause]

\* serve has resolved: select drops both halves
Stopped(cause) == [state |-> "stopped", cause |-> cause]

\* forward: the next item of chn_rx, in the order of the channel
ForwardNext(q) == Head(q)

\* format!("ip-{}", ip)
IpKey(ip) == <<105, 112, 45>> \o ip

\* recv closure: map = s.clone(); map.insert(format!("ip-{}", ip), 0.0)
TaggedMap(s, ip) == (IpKey(ip) :> <<0, 0, 0, 0>>) @@ s

\* tx.send(map) with the sender put at the wrong end of the channel
Delivered_Front(q, m) == <<m>> \o q

\* tx.send(map): the channel is first in, first out
Delivered(q, m) == Append(q, m)

\* the simulation pushes a map on chn_tx; a push after serve has ended is lost
sim_push ==
    /\ senders > 0
    /\ Len(pushed) < MaxMsgs
    /\ \E m \in MsgMaps :
          /\ pushed' = Append(pushed, m)
          /\ chn' = IF serve.state = "running" THEN Append(chn, m) ELSE chn
    /\ UNCHANGED <<wr, sock_out, sock_in, inq, serve, drained, senders>>
    /\ UNCHANGED <<gameVars, codecVars, funVars>>

\* the simulation takes the next map from rx
sim_drain ==
    /\ inq # <<>>
    /\ drained' = Append(drained, Head(inq))
    /\ inq' = Tail(inq)
    /\ UNCHANGED <<chn, wr, sock_out, sock_in, serve, pushed, senders>>
    /\ UNCHANGED <<gameVars, codecVars, funVars>>

\* send: forward takes an item and start_send encodes it into the write buffer
send_start ==
    /\ serve.state = "running"
    /\ chn # <<>>
    /\ wr = <<>>
    /\ \E order \in Orders(ForwardNext(chn)) :
          wr' = HashMapCodec_encode(ForwardNext(chn), order, wr)
    /\ chn' = Tail(chn)
    /\ UNCHANGED <<sock_out, sock_in, inq, serve, pushed, drained, senders>>
    /\ UNCHANGED <<gameVars, codecVars, funVars>>

\* send: poll_complete hands the write buffer to the socket
send_flush ==
    /\ serve.state = "running"
    /\ wr # <<>>
    /\ sock_out' = Append(sock_out, wr)
    /\ wr' = <<>>
    /\ UNCHANGED <<chn, sock_in, inq, serve, pushed, drained, senders>>
    /\ UNCHANGED <<gameVars, codecVars, funVars>>

(* send: the socket fails the send.  sink_map_err prints the error, forward  *)
(* resolves with it, select resolves and recv is dropped with it.             *)
send_error ==
    /\ serve.state = "running"
    /\ wr # <<>>
    /\ serve' = Stopped("send_err")
    /\ wr' = <<>>
    /\ chn' = <<>>
    /\ UNCHANGED <<sock_out, sock_in, inq, pushed, drained, senders>>
    /\ UNCHANGED <<gameVars, codecVars, funVars>>

(* recv: the stream receives a datagram and decodes it; the closure tags the *)
(* map with the sender and sends it on tx.  A datagram that does not decode  *)
(* panics in HashMapCodec::decode (expect), which ends the serve task.        *)
recv_datagram ==
    /\ serve.state = "running"
    /\ Len(sock_in) < MaxDatagrams
    /\ \E d \in Datagrams, ip \in Peers :
          LET frame == HashMapCodec_decode(d)
          IN /\ sock_in' = Append(sock_in, [bytes |-> d, ip |-> ip])
             /\ inq' = IF frame.ok THEN Delivered(inq, TaggedMap(frame.map, ip)) ELSE inq
             /\ serve' = IF frame.ok THEN serve ELSE Stopped("decode")
             /\ chn' = IF frame.ok THEN chn ELSE <<>>
             /\ wr' = IF frame.ok THEN wr ELSE <<>>
    /\ UNCHANGED <<sock_out, pushed, drained, senders>>
    /\ UNCHANGED <<gameVars, codecVars, funVars>>

(* recv: the socket fails the receive.  for_each resolves with the error,    *)
(* map_err prints it, select resolves and send is dropped with it.            *)
recv_error ==
    /\ serve.state = "running"
    /\ serve' = Stopped("recv_err")
    /\ chn' = <<>>
    /\ wr' = <<>>
    /\ UNCHANGED <<sock_out, sock_in, inq, pushed, drained, senders>>
    /\ UNCHANGED <<gameVars, codecVars, funVars>>

(* The holder of chn_tx drops it: the outbound channel is closed, and chn_rx *)
(* ends once the maps already pushed have been taken.                        *)
sim_close ==
    /\ senders > 0
    /\ senders' = senders - 1
    /\ UNCHANGED <<chn, wr, sock_out, sock_in, inq, serve, pushed, drained>>
    /\ UNCHANGED <<gameVars, codecVars, funVars>>

(* send: chn_rx has ended and the sink is flushed; forward resolves, select  *)
(* resolves with it and map(|_| ()) drops the SelectNext that holds recv.     *)
send_finish ==
    /\ serve.state = "running"
    /\ senders = 0
    /\ chn = <<>>
    /\ wr = <<>>
    /\ serve' = Stopped("send_done")
    /\ UNCHANGED <<chn, wr, sock_out, sock_in, inq, pushed, drained, senders>>
    /\ UNCHANGED <<gameVars, codecVars, funVars>>

\* the game constructed, the transport thread just spawned
InitNet ==
    /\ Init_game
    /\ Init_codec_idle
    /\ Init_fun_idle
    /\ Init_net_idle

NextNet ==
    \/ sim_push
    \/ sim_drain
    \/ send_start
    \/ send_flush
    \/ send_error
    \/ recv_datagram
    \/ recv_error
    \/ sim_close
    \/ send_finish

SpecNet == InitNet /\ [][NextNet]_vars

----------------------------------------------------------------------------
(* wrap_actor_position applied, and applied again, to an actor anywhere. *)

\* positions drawn: multiples of 100 pixels up to MaxWrapK, and their neighbours
MaxWrapK == 13

WrapPositions ==
    {k * 100 * PosScale + e : k \in -MaxWrapK..MaxWrapK, e \in {-1, 0, 1}}

InitWrap ==
    /\ Init_game
    /\ Init_codec_idle
    /\ Init_net_idle
    /\ fpc = "wrap"
    /\ \E x \in WrapPositions, y \in WrapPositions :
          farg = [create_rock EXCEPT !.pos = <<x, y>>]
    /\ fres = <<>>

\* wrap_actor_position(act, self.screen_width, self.screen_height), on its own result
wrap_call ==
    /\ fpc = "wrap"
    /\ Len(fres) < 2
    /\ LET act == IF fres = <<>> THEN farg ELSE fres[Len(fres)]
       IN fres' = Append(fres, wrap_actor_position(act, screen_width, screen_height))
    /\ UNCHANGED <<fpc, farg>>
    /\ UNCHANGED <<gameVars, codecVars, netVars>>

NextWrap == wrap_call

SpecWrap == InitWrap /\ [][NextWrap]_vars

----------------------------------------------------------------------------
(* One pass of handle_collisions over a drawn world: the player at the       *)
(* origin, rocks and shots at chosen spots.                                   *)

\* rocks and shots drawn per world
MaxRocks == 2
MaxShots == 2

Px(x, y) == <<x * PosScale, y * PosScale>>

(* Spots for rocks: at exactly PLAYER_BBOX + ROCK_BBOX = 24 pixels from the  *)
(* player (on an axis and off it: 14.4, 19.2), one grid step nearer, one     *)
(* further, on top of the player, and far from it.                            *)
RockSpots ==
    {Px(24, 0), <<(72 * PosScale) \div 5, (96 * PosScale) \div 5>>,
     VAdd(Px(24, 0), <<-1, 0>>), VAdd(Px(24, 0), <<1, 0>>), Px(0, 0), Px(100, 0)}

(* Spots for shots: 6 pixels from the rocks placed around (24, 0), and from  *)
(* the far rock at less than, exactly, and more than SHOT_BBOX + ROCK_BBOX = *)
(* 18 pixels.                                                                 *)
ShotSpots == {Px(30, 0), Px(110, 0), Px(118, 0), VAdd(Px(118, 0), <<-1, 0>>)}

SeqsUpTo(S, lo, hi) == UNION {[1..n -> S] : n \in lo..hi}

InitCollide ==
    /\ Init_game
    /\ Init_codec_idle
    /\ Init_net_idle
    /\ fpc = "collide"
    /\ \E rs \in SeqsUpTo(RockSpots, 1, MaxRocks), ss \in SeqsUpTo(ShotSpots, 0, MaxShots) :
          farg = [player |-> create_player,
                  shots |-> [j \in 1..Len(ss) |-> [create_shot EXCEPT !.pos = ss[j]]],
                  rocks |-> [i \in 1..Len(rs) |-> [create_rock EXCEPT !.pos = rs[i]]],
                  score |-> 0]
    /\ fres = <<>>

\* self.handle_collisions()
collide_call ==
    /\ fpc = "collide"
    /\ fres = <<>>
    /\ fres' = <<handle_collisions(farg.player, farg.shots, farg.rocks, farg.score)>>
    /\ UNCHANGED <<fpc, farg>>
    /\ UNCHANGED <<gameVars, codecVars, netVars>>

NextCollide == collide_call

SpecCollide == InitCollide /\ [][NextCollide]_vars

Init == Init_game /\ Init_codec_idle /\ Init_net_idle /\ Init_fun_idle

(* The user of the runs explored: acts before the first tick and once more   *)
(* KeyPeriod ticks later, presses a key at most once, never lets go of Up.    *)
UserActs == nticks \in {0, KeyPeriod}

PlayKeys == {"Space", "Up", "Right"}

Next ==
    \/ update
    \/ \E k \in PlayKeys \ pressed : UserActs /\ key_down_event(k)
    \/ \E k \in PlayKeys \ {"Up"} : UserActs /\ key_up_event(k)
    \/ event_run_return

Spec == Init /\ [][Next]_vars

----------------------------------------------------------------------------
(* The simulation under a user who works the fire key: Space goes down or up *)
(* before any tick whose number is a multiple of FirePeriod, so that shots   *)
(* follow each other at every gap the cooldown allows on that grid.  The     *)
(* user first presses Right and may hold it for the first KeyPeriod ticks,   *)
(* which turns the later shots away from the rocks.                           *)

\* ticks between two moments at which the user may press or release Space
FirePeriod == 15

FireUserActs == nticks % FirePeriod = 0

NextFire ==
    \/ update
    \/ nticks = 0 /\ "Right" \notin pressed /\ key_down_event("Right")
    \/ nticks = KeyPeriod /\ key_up_event("Right")
    \/ FireUserActs /\ "Right" \in pressed /\ "Space" \notin held /\ key_down_event("Space")
    \/ FireUserActs /\ key_up_event("Space")
    \/ event_run_return

SpecFire == Init /\ [][NextFire]_vars

----------------------------------------------------------------------------
(* create_rocks alone, over every angle of the table and the ends and the    *)
(* middle of the radius range.                                                *)

\* rocks per create_rocks call
MaxNum == 2

\* (min_radius, max_radius): the callers' 100.0, 250.0 and a narrow ring
Radii == {<<100, 250>>, <<25, 30>>}

\* exclusion points: the centre and two corners of the field
Exclusions == {Px(0, 0), Px(400, 300), Px(-400, -300)}

\* r_distance - min_radius at both ends of the range and in the middle
WideDists(width) == {0, 1, width \div 2, width - 1}

WideDraws(width) ==
    {[r_angle |-> a, r_dist |-> r, v_angle |-> 0, v_mag |-> 0] :
        a \in 0..(Len(SinTable) - 1), r \in WideDists(width)}

\* the first rock draws anything, the rocks after it Far or Low, within the range
DrawSeqs(num, width) ==
    {[i \in 1..num |-> IF i = 1 THEN w ELSE t[i]] :
        w \in WideDraws(width),
        t \in [1..num -> {d \in {Far, Low} : d.r_dist < width}]}

InitRocks ==
    /\ Init_game
    /\ Init_codec_idle
    /\ Init_net_idle
    /\ fpc = "create_rocks"
    /\ \E num \in 1..MaxNum, ex \in Exclusions, rad \in Radii :
          \E ds \in DrawSeqs(num, rad[2] - rad[1]) :
              farg = [num |-> num, exclusion |-> ex, min_radius |-> rad[1],
                      max_radius |-> rad[2], draws |-> ds]
    /\ fres = <<>>

\* create_rocks(num, exclusion, min_radius, max_radius)
create_rocks_call ==
    /\ fpc = "create_rocks"
    /\ fres = <<>>
    /\ farg.max_radius > farg.min_radius
    /\ \E r \in create_rocks_of({farg.draws}, farg.num, farg.exclusion,
                                farg.min_radius, farg.max_radius) :
          fres' = <<r>>
    /\ UNCHANGED <<fpc, farg>>
    /\ UNCHANGED <<gameVars, codecVars, netVars>>

NextRocks == create_rocks_call

SpecRocks == InitRocks /\ [][NextRocks]_vars

----------------------------------------------------------------------------
(* The key handlers alone, under every interleaving of key-down events (the  *)
(* repeats of a held key included) and key-up events of held keys.           *)

NextKeys ==
    \/ \E k \in KeyCodes : key_down_event(k)
    \/ \E k \in KeyCodes : key_up_event(k)
    \/ event_run_return

SpecKeys == Init /\ [][NextKeys]_vars

----------------------------------------------------------------------------
(* Properties of the simulation. *)

\* every actor of the world
Actors == {player} \cup {shots[j] : j \in 1..Len(shots)}
                   \cup {rocks[i] : i \in 1..Len(rocks)}

\* rounding error of the clamp, in velocity units
VelEps == 2

\* |v| <= r, without forming squares wider than 32 bits
NormAtMost(v, r) ==
    /\ Abs(v[1]) <= r
    /\ Abs(v[2]) <= r
    /\ norm_squared(v) <= r * r

(* C1 as stated: after every tick every actor's velocity has magnitude at    *)
(* most MAX_PHYSICS_VEL (250 pixels per second).                              *)
C1_AsStated == \A a \in Actors : NormAtMost(a.velocity, MAX_PHYSICS_VEL)

(* C1: after every tick every actor's velocity has magnitude at most         *)
(* MAX_PHYSICS_VEL plus the rounding error of the clamp's division and       *)
(* multiplication; a velocity along an axis is cut to the cap exactly.       *)
C1_VelocityBound ==
    \A a \in Actors :
        /\ NormAtMost(a.velocity, MAX_PHYSICS_VEL + VelEps)
        /\ (a.velocity[1] = 0 \/ a.velocity[2] = 0) =>
               NormAtMost(a.velocity, MAX_PHYSICS_VEL)

\* the player has thrust into the cap and the clamp has cut its velocity
C1_Witness ==
    /\ input.yaxis > 0
    /\ nticks > (MAX_PHYSICS_VEL \div PLAYER_THRUST) * DESIRED_FPS
    /\ ~NormLess(player.velocity, MAX_PHYSICS_VEL)
    /\ player.velocity[1] # 0

InBounds(a) ==
    /\ Abs(a.pos[1]) <= screen_width \div 2
    /\ Abs(a.pos[2]) <= screen_height \div 2

(* C2 as stated: after every tick every actor, rocks created by a level      *)
(* respawn included, has |x| <= screen_width / 2 and |y| <= screen_height / 2. *)
C2_AsStated == \A a \in Actors : InBounds(a)

(* C2: after every tick the player, every shot and every rock that went      *)
(* through the tick's wrap is inside the field; the rocks the tick's level   *)
(* respawn created lie within max_radius (250 pixels) of the player on each  *)
(* axis, so up to 250 pixels outside the field, until the next tick wraps    *)
(* them.                                                                      *)
C2_PositionBound ==
    /\ InBounds(player)
    /\ \A j \in 1..Len(shots) : InBounds(shots[j])
    /\ \A i \in 1..Len(rocks) :
          IF i <= Len(rocks) - spawned THEN InBounds(rocks[i])
          ELSE /\ Abs(rocks[i].pos[1] - player.pos[1]) <= 250 * PosScale
               /\ Abs(rocks[i].pos[2] - player.pos[2]) <= 250 * PosScale

\* a level respawn has just put a rock outside the field
C2_Witness ==
    /\ spawned > 0
    /\ \E i \in 1..Len(rocks) : ~InBounds(rocks[i])

(* C3: score and level are never negative, and no step decreases either.     *)
C3_ScoreLevelMonotonic ==
    /\ [](score >= 0 /\ level >= 0)
    /\ [][score' >= score /\ level' >= level]_vars

\* both have grown
C3_Witness == score > MaxLevel /\ level = MaxLevel

(* C4: a shot stays in the list for at most SHOT_LIFE + dt seconds of ticks, *)
(* counted from the tick that fired it: its life falls by dt in every tick   *)
(* from that one on, and the tick that leaves life <= 0 removes it.           *)
C4_ShotLifetime ==
    /\ Len(shot_ticks) = Len(shots)
    /\ \A j \in 1..Len(shots) :
          /\ shots[j].life > 0
          /\ shot_ticks[j] * Seconds <= SHOT_LIFE + Seconds

\* a shot that has outlived SHOT_LIFE by the rounding of dt and is still listed
C4_Witness ==
    \E j \in 1..Len(shots) :
        /\ shot_ticks[j] * Seconds > SHOT_LIFE
        /\ shots[j].life > 0

\* the state MainState::new builds, with any of its rock sets
FreshWorld ==
    /\ player = create_player
    /\ shots = <<>>
    /\ Len(rocks) = 5
    /\ level = 0
    /\ score = 0
    /\ player_shot_timeout = 0

(* C5 as stated: a tick whose end-state check finds player.life <= 0 leaves  *)
(* the world reset (fresh player at the origin, no shots, five rocks, level  *)
(* and score 0, cooldown cleared) and the process running.                    *)
C5_AsStated == died => (FreshWorld /\ continuing /\ pc # "done")

(* C6 as stated: the game starts with a 5 second Instructions countdown      *)
(* during which no simulation step runs: with fire never pressed, the world  *)
(* is still as constructed throughout the first 5 * DESIRED_FPS ticks.        *)
C6_AsStated ==
    (nticks < 5 * DESIRED_FPS /\ "Space" \notin pressed) =>
        (player = create_player /\ player_shot_timeout = 0)

(* C7 as stated: after the player's death the game always returns to         *)
(* Playing, so the event loop never ends because of a death.                  *)
C7_AsStated == died => pc # "done"

\* |v| in [lo, hi) pixels, for position offsets v, in units of 10 / PosScale pixels
InAnnulus(v, lo, hi) ==
    LET w == <<v[1] \div 10, v[2] \div 10>>
        q == PosScale \div 10
    IN /\ Abs(w[1]) < hi * q
       /\ Abs(w[2]) < hi * q
       /\ norm_squared(w) >= (lo * q) * (lo * q)
       /\ norm_squared(w) < (hi * q) * (hi * q)

(* C8: in every tick, after pruning: if no rock is left, level grows by one  *)
(* and exactly level + 5 rocks (the new level) are created around the        *)
(* player's current position; otherwise level and rocks stay as pruned.       *)
C8_LevelRespawn ==
    [][nticks' = nticks + 1 =>
         IF Tick.rocks = <<>>
         THEN /\ level' = level + 1
              /\ Len(rocks') = level' + 5
              /\ \A i \in 1..Len(rocks') :
                    /\ rocks'[i].tag = "Rock"
                    /\ rocks'[i].life = ROCK_LIFE
                    /\ InAnnulus(VSub(rocks'[i].pos, player'.pos), 100, 250)
         ELSE /\ level' = level
              /\ rocks' = Tick.rocks]_vars

\* the last rock of level 3 destroyed: level 4 with its nine rocks, just created
C8_Witness == spawned = MaxLevel + 5 /\ level = MaxLevel /\ Len(rocks) = spawned

C10_RoundTrip ==
    cpc \in {"decoded", "panicked"} => (cpc = "decoded" /\ cout.ok /\ cout.map = cmap)

\* a map of two entries, one key of more than one byte, has made the round trip
C10_Witness ==
    /\ cpc = "decoded"
    /\ Cardinality(DOMAIN cmap) = MaxEntries
    /\ \E k \in DOMAIN cmap : Len(as_bytes(k)) > Len(k)
    /\ \E k \in DOMAIN cmap : cmap[k][4] # 0
    /\ Len(cbuf) > 4

----------------------------------------------------------------------------
(* Properties of the transport. *)

\* the map a datagram decodes to
FrameOf(bytes) == HashMapCodec_decode(bytes).map

\* the maps handed to the socket so far, then the one in the write buffer
SentMaps == [i \in 1..Len(sock_out) |-> FrameOf(sock_out[i])]
WrMaps == IF wr = <<>> THEN <<>> ELSE <<FrameOf(wr)>>

\* the datagrams received so far that decode, as the recv closure delivers them
ReceivedMaps ==
    LET good == SelectSeq(sock_in, LAMBDA g : HashMapCodec_decode(g.bytes).ok)
    IN [i \in 1..Len(good) |-> TaggedMap(FrameOf(good[i].bytes), good[i].ip)]

IsPrefix(a, b) == Len(a) <= Len(b) /\ a = SubSeq(b, 1, Len(a))

(* C11: the maps handed to the socket are, in order and without repetition,  *)
(* the first maps pushed on the outbound channel, the rest waiting in order  *)
(* in the write buffer and the channel; the maps delivered on the inbound    *)
(* channel and drained from it are, in order and without repetition, the     *)
(* decoded datagrams in the order the socket received them.                   *)
C11_Fifo ==
    /\ IsPrefix(SentMaps, pushed)
    /\ serve.state = "running" => SentMaps \o WrMaps \o chn = pushed
    /\ drained \o inq = ReceivedMaps

\* two different maps went out and two different maps came in and were drained
C11_Witness ==
    /\ Len(sock_out) = MaxMsgs
    /\ pushed[1] # pushed[2]
    /\ Len(drained) = MaxDatagrams
    /\ drained[1] # drained[2]

\* a datagram that does not decode has been received
MalformedReceived ==
    \E i \in 1..Len(sock_in) : ~HashMapCodec_decode(sock_in[i].bytes).ok

(* C12 as stated: a datagram that fails to decode is discarded and the       *)
(* transport goes on: once one has been received, serve is still running,    *)
(* unless a socket error ended it.                                            *)
C12_AsStated ==
    MalformedReceived => (serve.state = "running" \/ serve.cause \in {"send_err", "recv_err"})

(* C13 as stated: a send error or a receive error of the socket never ends   *)
(* the transport: serve is never stopped with such an error as its cause.     *)
C13_AsStated == serve.state = "stopped" => serve.cause \notin {"send_err", "recv_err"}

\* the maps the recv task has put on the inbound channel so far
DeliveredCount == Len(drained) + Len(inq)

\* one of the two tasks of serve has completed
HalfCompleted == serve.cause # "none"

(* C21: send and recv end together.  Once either has completed (send by the  *)
(* closed outbound channel or a sink error, recv by a stream error or a      *)
(* failed decode) serve is stopped with nothing left in the outbound channel *)
(* or the write buffer, and from then on no datagram is handed to the        *)
(* socket, none is received and no map is delivered on the inbound channel.  *)
C21_EndTogether ==
    /\ [](HalfCompleted => (serve.state = "stopped" /\ chn = <<>> /\ wr = <<>>))
    /\ [][HalfCompleted =>
            /\ serve' = serve
            /\ sock_out' = sock_out
            /\ sock_in' = sock_in
            /\ chn' = chn
            /\ wr' = wr
            /\ Len(drained') + Len(inq') = DeliveredCount]_vars

(* the outbound channel was closed, send completed after a map went out, and *)
(* recv is gone although the socket could receive more                        *)
C21_Witness ==
    /\ serve = Stopped("send_done")
    /\ senders = 0
    /\ sock_out # <<>>
    /\ DeliveredCount > 0
    /\ Len(sock_in) < MaxDatagrams

----------------------------------------------------------------------------
(* Further properties of the simulation. *)

(* C14 as stated: a shot just fired has the player's facing and the velocity *)
(* player.velocity + SHOT_SPEED * unit(facing).  Read at the end of the tick *)
(* that fired it, where the shot has turned by SHOT_ANG_VEL once, for shots  *)
(* slow enough that the clamp leaves both velocities alone.                   *)
C14_AsStated ==
    \A j \in 1..Len(shots) :
        LET expected == VAdd(player.velocity,
                             Scaled(vec_from_angle(player.facing), SHOT_SPEED))
        IN (shot_ticks[j] = 1 /\ NormLess(player.velocity, MAX_PHYSICS_VEL)
                              /\ NormLess(expected, MAX_PHYSICS_VEL)) =>
              /\ shots[j].facing = player.facing + SHOT_ANG_VEL
              /\ shots[j].velocity = expected

\* wrap has been applied twice
WrappedTwice == fpc = "wrap" /\ Len(fres) = 2

(* C15 as stated: for every position, wrapping twice gives what wrapping     *)
(* once gives.                                                                *)
C15_AsStated == WrappedTwice => fres[2].pos = fres[1].pos

\* at most one screen beyond the field on each axis
WithinOneScreen(pos) ==
    /\ 2 * Abs(pos[1]) <= 3 * screen_width
    /\ 2 * Abs(pos[2]) <= 3 * screen_height

(* C15: for every position at most one screen size beyond the field on each  *)
(* axis (|x| <= 3/2 sx, |y| <= 3/2 sy), wrapping twice gives what wrapping   *)
(* once gives, and that position is inside the field.                         *)
C15_WrapIdempotent ==
    (WrappedTwice /\ WithinOneScreen(farg.pos)) =>
        (fres[2].pos = fres[1].pos /\ InBounds(fres[1]))

\* a position exactly one screen and a half out on x, and off the field on y
C15_Witness ==
    /\ WrappedTwice
    /\ 2 * farg.pos[1] = 3 * screen_width
    /\ farg.pos[2] < -(screen_height \div 2)
    /\ WithinOneScreen(farg.pos)
    /\ fres[1].pos # farg.pos

\* the collision pass has run
Collided == fpc = "collide" /\ fres # <<>>

\* the squared distance of two positions
DistSq(a, b) == norm_squared(VSub(a, b))

\* the rocks strictly nearer to the player than the sum of the two radii
RocksOnPlayer ==
    {i \in 1..Len(farg.rocks) :
        DistSq(farg.rocks[i].pos, farg.player.pos)
            < (farg.player.bbox_size + farg.rocks[i].bbox_size)
                * (farg.player.bbox_size + farg.rocks[i].bbox_size)}

(* C16: the pass sets the player's life to 0 if and only if some rock is     *)
(* strictly nearer than player.bbox_size + rock.bbox_size; a rock at exactly *)
(* that distance leaves the player as it was.                                 *)
C16_PlayerRockStrict ==
    Collided =>
        IF RocksOnPlayer # {} THEN fres[1].player.life = 0
        ELSE fres[1].player = farg.player /\ fres[1].player.life > 0

\* rocks exactly 24 pixels away, on an axis and off it, and the player lives
C16_Witness ==
    /\ Collided
    /\ Len(farg.rocks) = 2
    /\ farg.rocks[1].pos # farg.rocks[2].pos
    /\ \A i \in 1..2 :
          DistSq(farg.rocks[i].pos, farg.player.pos)
              = (PLAYER_BBOX + ROCK_BBOX) * (PLAYER_BBOX + ROCK_BBOX)
    /\ fres[1].player.life > 0

\* the (rock, shot) pairs strictly nearer than the sum of their radii
Overlaps ==
    {pr \in (1..Len(farg.rocks)) \X (1..Len(farg.shots)) :
        DistSq(farg.shots[pr[2]].pos, farg.rocks[pr[1]].pos)
            < (SHOT_BBOX + ROCK_BBOX) * (SHOT_BBOX + ROCK_BBOX)}

(* C18: one pass sets to 0 the life of every rock and every shot of an       *)
(* overlapping pair, leaves the other rocks and shots as they were, and adds *)
(* to the score the number of overlapping pairs, whether or not the shot or  *)
(* the rock of a pair was already hit in the pass.                            *)
C18_CollisionPass ==
    Collided =>
        /\ fres[1].score = farg.score + Cardinality(Overlaps)
        /\ Len(fres[1].rocks) = Len(farg.rocks)
        /\ Len(fres[1].shots) = Len(farg.shots)
        /\ \A i \in 1..Len(farg.rocks) :
              IF \E j \in 1..Len(farg.shots) : <<i, j>> \in Overlaps
              THEN fres[1].rocks[i].life = 0
              ELSE fres[1].rocks[i] = farg.rocks[i]
        /\ \A j \in 1..Len(farg.shots) :
              IF \E i \in 1..Len(farg.rocks) : <<i, j>> \in Overlaps
              THEN fres[1].shots[j].life = 0
              ELSE fres[1].shots[j] = farg.shots[j]

\* two rocks each overlapped by the same two shots: four pairs, four points
C18_Witness ==
    /\ Collided
    /\ Cardinality(Overlaps) = MaxRocks * MaxShots
    /\ Len(farg.rocks) > 1
    /\ Len(farg.shots) > 1
    /\ fres[1].score = farg.score + Len(farg.rocks) * Len(farg.shots)

\* the turn keys held
TurnKeys == held \cap {"Left", "Right"}

(* C17: under every interleaving of key-down and key-up events, xaxis is -1  *)
(* while Left (and not Right) is held and +1 while Right (and not Left) is   *)
(* held, and both axes stay in [-1, 1].  Violated: the release of either     *)
(* turn key sets xaxis to 0 while the other is still held.                    *)
C17_AsStated ==
    /\ TurnKeys = {"Left"} => input.xaxis = -1
    /\ TurnKeys = {"Right"} => input.xaxis = 1
    /\ input.xaxis \in -1..1
    /\ input.yaxis \in -1..1

(* C19: between ticks every shot and every rock of the world has life > 0:  *)
(* the tick that brings a life to 0 or below, by decay or by collision, also *)
(* removes the actor, before it checks for the level respawn.                 *)
C19_NoDeadActors ==
    /\ \A j \in 1..Len(shots) : shots[j].life > 0
    /\ \A i \in 1..Len(rocks) : rocks[i].life > 0

\* some rocks of the first level were shot and removed, the others are listed
C19_Witness ==
    /\ level = 0
    /\ score > 0
    /\ Len(rocks) \in 1..4
    /\ \A i \in 1..Len(rocks) : rocks[i].life > 0

\* create_rocks has returned
RocksMade == fpc = "create_rocks" /\ fres # <<>>

(* v[1]^2 + v[2]^2 < r^2 for |v[1]|, |v[2]|, r below 4 * 32768, exactly: the *)
(* squares are taken in two limbs of 15 bits.                                 *)
Limb == 32768

NormBelow(v, r) ==
    LET a == Abs(v[1])
        b == Abs(v[2])
        c0 == (a % Limb) * (a % Limb) + ((b % Limb) * (b % Limb) - (r % Limb) * (r % Limb))
        c1 == 2 * ((a \div Limb) * (a % Limb) + (b \div Limb) * (b % Limb)
                     - (r \div Limb) * (r % Limb))
        c2 == (a \div Limb) * (a \div Limb) + (b \div Limb) * (b \div Limb)
                 - (r \div Limb) * (r \div Limb)
        k1 == c1 + (c0 \div Limb)
    IN c2 + (k1 \div Limb) < 0

\* the rocks create_rocks returned, as offsets from the exclusion point
Offsets == {VSub(fres[1][i].pos, farg.exclusion) : i \in 1..Len(fres[1])}

PlaceTol == 1

C22_RocksNeverEmpty == Len(rocks) >= 1

\* the tick that destroyed the last rock of the first level left six new rocks
C22_Witness ==
    /\ level = 1
    /\ spawned = 6
    /\ Len(rocks) = 6
    /\ score >= 5

\* ticks between the creation of each shot of the list and that of the next
ShotGaps == {shot_ticks[j] - shot_ticks[j + 1] : j \in 1..(Len(shots) - 1)}

(* C23 as stated: between ticks the list holds at most 4 shots, consecutive  *)
(* shots were created at least 31 ticks apart, and no shot has been through  *)
(* more than 120 ticks.  Violated: with fire held the cooldown of 0.5 s runs *)
(* out in the 30th tick after a shot.                                         *)
C23_AsStated ==
    /\ Len(shots) <= 4
    /\ \A g \in ShotGaps : g >= 31
    /\ \A j \in 1..Len(shots) : shot_ticks[j] <= 120

(* C23: between ticks the list holds at most 4 shots: consecutive shots were *)
(* created at least 30 ticks apart, and a shot is in the list for at most    *)
(* 120 ticks, the one that created it included; the 121st removes it.         *)
C23_ShotCap ==
    /\ Len(shots) = Len(shot_ticks)
    /\ Len(shots) <= 4
    /\ \A g \in ShotGaps : g >= 30
    /\ \A j \in 1..Len(shots) : shot_ticks[j] \in 1..120

\* four shots in the list, fired 30 ticks apart, the oldest in its last tick
C23_Witness ==
    /\ Len(shots) = 4
    /\ ShotGaps = {30}
    /\ shot_ticks[1] = 120

\* the rocks some shot overlaps
RocksShot == {i \in 1..Len(farg.rocks) : \E j \in 1..Len(farg.shots) : <<i, j>> \in Overlaps}

(* C24: a rock within collision distance of the player kills the player in   *)
(* the pass, also when a shot destroys that rock in the same pass; the       *)
(* collision with the player changes nothing else: such a rock keeps its     *)
(* life unless a shot overlaps it, and where no shot overlaps any rock the   *)
(* rocks, the shots and the score come out of the pass as they went in.       *)
C24_PlayerRockShot ==
    Collided =>
        /\ \A i \in RocksOnPlayer :
              /\ fres[1].player.life = 0
              /\ fres[1].rocks[i] =
                    [farg.rocks[i] EXCEPT
                        !.life = IF i \in RocksShot THEN 0 ELSE farg.rocks[i].life]
        /\ fres[1].player = [farg.player EXCEPT
                               !.life = IF RocksOnPlayer # {} THEN 0 ELSE farg.player.life]
        /\ Overlaps = {} =>
              /\ fres[1].rocks = farg.rocks
              /\ fres[1].shots = farg.shots
              /\ fres[1].score = farg.score

\* the one rock of the world touches the player and a shot destroys it: both die
C24_Witness ==
    /\ Collided
    /\ Len(farg.rocks) = 1
    /\ RocksOnPlayer = {1}
    /\ RocksShot = {1}
    /\ fres[1].player.life = 0
    /\ fres[1].rocks[1].life = 0
    /\ fres[1].score = farg.score + Cardinality(Overlaps)

====
